---- MODULE Spec2Model ----
(***************************************************************************)
(* The payment service of the storefront (createPaymentOrder,              *)
(* processPayment, refundPayment) over the Order / Payment / Product rows  *)
(* it reads and writes.  Every `await` of a handler is one step of a       *)
(* process, so that two requests interleave exactly where the event loop   *)
(* lets them; every storage call may throw.  The courier client           *)
(* (DelhiveryService.createShipment) is a function of what the HTTP call   *)
(* does and has a specification of its own, CourierSpec.                   *)
(***************************************************************************)
EXTENDS Integers, Sequences, FiniteSets, TLC

\* ---------------------------------------------------------------- bounds
MaxCalls == 2       \* processPayment / refundPayment invocations in one behaviour
MaxPayments == 2    \* Payment rows (and gateway orders) created in one behaviour
InitialStock == 1   \* Product.stock of every product when the behaviour starts
MaxShipmentCalls == 2   \* DelhiveryService.createShipment calls in one behaviour

\* ------------------------------------------------------------ the fixture
Procs == {"a", "b"}            \* request handlers that may be in flight together
OrderIds == {1}                \* Order rows that exist
UnknownOrderIds == {9}         \* an order id with no row
Products == {1, 2}
PaymentIds == {"pay_A"}        \* razorpay_payment_id values a client may send

\* Order.orderItems of an order: a line of one unit of product 1 and a line of
\* two units of product 2.
OrderItems(o) ==
    << [productId |-> 1, quantity |-> 1], [productId |-> 2, quantity |-> 2] >>

VARIABLES
    payments,       \* Payment table: sequence of rows, the id is the index
    orders,         \* Order.status by order id
    stock,          \* Product.stock by product id
    shipReq,        \* createDelhiveryShipment calls issued so far, by order id
    calls,          \* processPayment / refundPayment invocations so far
    pc,             \* position of each handler
    run,            \* locals of each handler and the record of what it did
    courier         \* the createShipment calls made of the DelhiveryService

vars == << payments, orders, stock, shipReq, calls, pc, run, courier >>

\* ------------------------------------------------------------- results
Result(s, e, m) == [success |-> s, error |-> e, message |-> m]
NoResult == Result(FALSE, "", "")
StorageError == "storage error"      \* error.message of a rejected prisma call

\* ProcessPaymentData
NoData ==
    [orderId |-> 0, razorpayOrderId |-> 0, paymentMethod |-> "",
     razorpayPaymentId |-> "", razorpaySignature |-> << >>]

\* ------------------------------------------------- lib/razorpay (gateway)
\* The HMAC of `order_id|payment_id` under the shared secret.  Only the gateway
\* and the server hold the secret, so a signature is the pair it was made for.
Hmac(orderId, paymentId) == << orderId, paymentId >>

verifyRazorpayPayment(v) ==
    v.razorpay_signature = Hmac(v.razorpay_order_id, v.razorpay_payment_id)

\* What a client can present as razorpay_signature: the signature the gateway
\* issued for the payment of a gateway order, or one it never issued.
ForgedSignature == Hmac(0, "")

\* The requests: the one an honest checkout sends for a gateway order, and the
\* ones that differ from it in one field (another method, a missing payment id,
\* a missing signature, a forged signature); orderId and razorpayOrderId are free.
HonestRequest(o, g, p) ==
    [orderId |-> o, razorpayOrderId |-> g, paymentMethod |-> "razorpay",
     razorpayPaymentId |-> p, razorpaySignature |-> Hmac(g, p)]

ProcessRequests ==
    UNION { { HonestRequest(o, g, p),
              [HonestRequest(o, g, p) EXCEPT !.paymentMethod = "cod"],
              [HonestRequest(o, g, p) EXCEPT !.razorpayPaymentId = ""],
              [HonestRequest(o, g, p) EXCEPT !.razorpaySignature = << >>],
              [HonestRequest(o, g, p) EXCEPT !.razorpaySignature = ForgedSignature] }
            : o \in OrderIds, g \in 1..MaxPayments, p \in PaymentIds }

\* ------------------------------------------------------ processPayment
\* (mutant) the lookup keyed by the order alone
MatchesOrderOnly(p, d) == p.orderId = d.orderId

\* where: { orderId, transactionId } of prisma.payment.findFirst
MatchesPayment(p, d) ==
    p.orderId = d.orderId /\ p.transactionId = d.razorpayOrderId

findFirst(d) == { i \in DOMAIN payments : MatchesPayment(payments[i], d) }

\* (mutant) the guard without the test of the payment method
HasSignatureFields(d) ==
    /\ d.razorpayPaymentId # ""
    /\ d.razorpaySignature # << >>

\* the condition of the `if` that guards the verification
HasRazorpayFields(d) ==
    /\ d.paymentMethod = "razorpay"
    /\ d.razorpayPaymentId # ""
    /\ d.razorpaySignature # << >>

VerificationOf(d) ==
    [razorpay_order_id |-> d.razorpayOrderId,
     razorpay_payment_id |-> d.razorpayPaymentId,
     razorpay_signature |-> d.razorpaySignature]

NoVerification ==
    [razorpay_order_id |-> 0, razorpay_payment_id |-> "", razorpay_signature |-> << >>]

isValidPayment(d) == HasRazorpayFields(d) /\ verifyRazorpayPayment(VerificationOf(d))

\* (mutant) the verifier's answer is not looked at
paymentStatusUnverified(d) ==
    IF d.paymentMethod = "razorpay" /\ d.razorpayPaymentId # "" /\ d.razorpaySignature # << >>
    THEN "COMPLETED" ELSE "FAILED"

paymentStatusOf(d) == IF isValidPayment(d) THEN "COMPLETED" ELSE "FAILED"

\* (mutant) the order is confirmed whatever the verifier answered
orderStatusAlwaysConfirmed(d) == "CONFIRMED"

orderStatusOf(d) == IF isValidPayment(d) THEN "CONFIRMED" ELSE "FAILED"

\* (mutant) paidAt: new Date() whatever the status
VerifiedPaymentAlwaysPaid(p, status) ==
    [p EXCEPT !.status = status, !.paidAt = TRUE]

\* data of prisma.payment.update in processPayment
VerifiedPayment(p, status) ==
    [p EXCEPT !.status = status, !.paidAt = (status = "COMPLETED")]

\* data of prisma.payment.update in refundPayment
RefundedPayment(p) == [p EXCEPT !.status = "REFUNDED"]

\* (mutant) transactionId: receipt, the receipt id instead of the gateway order's id
NewPaymentWithReceipt(orderId, gatewayOrderId) ==
    [orderId |-> orderId, transactionId |-> 0,
     status |-> "PENDING", paidAt |-> FALSE]

\* data of prisma.payment.create in createPaymentOrder
NewPayment(orderId, gatewayOrderId) ==
    [orderId |-> orderId, transactionId |-> gatewayOrderId,
     status |-> "PENDING", paidAt |-> FALSE]

\* (mutant) stock: { decrement: 1 }
DecrementByOne(s, item) ==
    [s EXCEPT ![item.productId] = @ - 1]

\* stock: { decrement: item.quantity }
Decrement(s, item) ==
    [s EXCEPT ![item.productId] = @ - item.quantity]

\* ------------------------------------------------------------ handlers
IdleRun ==
    [op |-> "none", data |-> NoData, paymentId |-> 0,
     paymentStatus |-> "", orderStatus |-> "", item |-> 0,
     result |-> NoResult,
     \* the record of what the run did
     existed |-> FALSE,        \* a row matched the lookup's key when it was made
     verifyCalled |-> FALSE, verifyArgs |-> NoVerification, verifyResult |-> FALSE,
     payWritten |-> "", orderWritten |-> "",
     decs |-> 0, shipCalls |-> 0, shipOutcome |-> "",
     gatewayCalled |-> FALSE,  \* createPaymentOrder asked the gateway for an order
     threw |-> "", overlapped |-> FALSE,
     repeat |-> FALSE]         \* the call repeats the one before it

InFlight(r) == pc[r] \notin {"idle", "done"}

\* A request is served by a handler that is not in flight (the record of the call
\* it served before is dropped).  The handlers are interchangeable: "b" serves
\* only the requests that arrive while "a" is in flight.
Free(r) ==
    /\ ~InFlight(r)
    /\ r = "b" => InFlight("a")

Init ==
    /\ payments = << >>
    /\ orders = [o \in OrderIds |-> "PENDING"]
    /\ stock = [p \in Products |-> InitialStock]
    /\ shipReq = [o \in OrderIds |-> 0]
    /\ calls = 0
    /\ pc = [r \in Procs |-> "idle"]
    /\ run = [r \in Procs |-> IdleRun]
    /\ courier = << >>

\* (mutant) the catch block throws the error on to the caller
CaughtRethrows(r, step) ==
    /\ pc' = [pc EXCEPT ![r] = "thrown"]
    /\ run' = [run EXCEPT ![r].threw = step]

\* (mutant) the catch block reports success
CaughtAsSuccess(r, step) ==
    /\ pc' = [pc EXCEPT ![r] = "done"]
    /\ run' = [run EXCEPT ![r].threw = step,
                          ![r].result = Result(TRUE, "", "")]

\* `catch (error)` of a handler: the rejected call ends the run with
\* { success: false, error: error.message }
Caught(r, step) ==
    /\ pc' = [pc EXCEPT ![r] = "done"]
    /\ run' = [run EXCEPT ![r].threw = step,
                          ![r].result = Result(FALSE, StorageError, "")]

\* a run that starts while another is in flight overlaps it
Started(r, op) ==
    [s \in Procs |->
        IF s = r
        THEN [IdleRun EXCEPT !.op = op,
                             !.overlapped = (\E t \in Procs \ {r} : InFlight(t))]
        ELSE IF InFlight(s) THEN [run[s] EXCEPT !.overlapped = TRUE] ELSE run[s]]

\* the call before this one, served by the same handler, was a processPayment
\* with the same data that returned success, and nothing ran beside either
RepeatOf(r, d) ==
    /\ pc[r] = "done"
    /\ run[r].op = "processPayment"
    /\ run[r].data = d
    /\ run[r].result.success
    /\ ~run[r].overlapped
    /\ \A t \in Procs \ {r} : ~InFlight(t)

\* processPayment(data) up to its first storage write: the lookup, the early
\* return, and the synchronous verification that follows the lookup.
PP_FindPayment(r, d) ==
    /\ Free(r)
    /\ calls < MaxCalls
    /\ calls' = calls + 1
    /\ LET st == Started(r, "processPayment")
           ex == \E i \in DOMAIN payments :
                    /\ payments[i].orderId = d.orderId
                    /\ payments[i].transactionId = d.razorpayOrderId
           me == [st[r] EXCEPT !.data = d, !.existed = ex, !.repeat = RepeatOf(r, d)]
       IN \/ /\ pc' = [pc EXCEPT ![r] = "done"]       \* findFirst rejects
             /\ run' = [st EXCEPT ![r] = [me EXCEPT !.threw = "findFirst",
                                    !.result = Result(FALSE, StorageError, "")]]
          \/ /\ findFirst(d) = {}                      \* if (!payment)
             /\ pc' = [pc EXCEPT ![r] = "done"]
             /\ run' = [st EXCEPT ![r] = [me EXCEPT
                          !.result = Result(FALSE, "Payment record not found", "")]]
          \/ \E i \in findFirst(d) :
                /\ pc' = [pc EXCEPT ![r] = "paymentUpdate"]
                /\ run' = [st EXCEPT ![r] = [me EXCEPT
                             !.paymentId = i,
                             !.verifyCalled = HasRazorpayFields(d),
                             !.verifyArgs = IF HasRazorpayFields(d) THEN VerificationOf(d)
                                            ELSE NoVerification,
                             !.verifyResult = /\ HasRazorpayFields(d)
                                              /\ verifyRazorpayPayment(VerificationOf(d)),
                             !.paymentStatus = paymentStatusOf(d),
                             !.orderStatus = orderStatusOf(d)]]
    /\ UNCHANGED << payments, orders, stock, shipReq, courier >>

\* await prisma.payment.update({ where: { id: payment.id }, ... })
PP_UpdatePayment(r) ==
    /\ pc[r] = "paymentUpdate"
    /\ \/ /\ Caught(r, "paymentUpdate")
          /\ UNCHANGED payments
       \/ /\ payments' = [payments EXCEPT ![run[r].paymentId] =
                             VerifiedPayment(@, run[r].paymentStatus)]
          /\ pc' = [pc EXCEPT ![r] = "orderUpdate"]
          /\ run' = [run EXCEPT ![r].payWritten = run[r].paymentStatus]
    /\ UNCHANGED << orders, stock, shipReq, calls, courier >>

\* the result of a run that reached `return` at the end of the try block
Returned(status) ==
    Result(status = "COMPLETED", "",
           IF status = "COMPLETED"
           THEN "Payment successful! Your order has been confirmed."
           ELSE "Payment verification failed. Please try again.")

\* await prisma.order.update({ where: { id: data.orderId }, ... }); a payment that
\* is not COMPLETED skips the stock loop and the shipment and returns.
PP_UpdateOrder(r) ==
    /\ pc[r] = "orderUpdate"
    /\ \/ /\ Caught(r, "orderUpdate")
          /\ UNCHANGED orders
       \/ /\ orders' = [orders EXCEPT ![run[r].data.orderId] = run[r].orderStatus]
          /\ IF run[r].paymentStatus = "COMPLETED"
             THEN /\ pc' = [pc EXCEPT ![r] =
                              IF Len(OrderItems(run[r].data.orderId)) > 0
                              THEN "productUpdate" ELSE "createShipment"]
                  /\ run' = [run EXCEPT ![r].orderWritten = run[r].orderStatus,
                                        ![r].item = 1]
             ELSE /\ pc' = [pc EXCEPT ![r] = "done"]
                  /\ run' = [run EXCEPT ![r].orderWritten = run[r].orderStatus,
                                        ![r].result = Returned(run[r].paymentStatus)]
    /\ UNCHANGED << payments, stock, shipReq, calls, courier >>

\* (mutant) a rejected product.update is swallowed and the loop goes on
PP_UpdateProductIgnoringFailure(r) ==
    /\ pc[r] = "productUpdate"
    /\ LET items == OrderItems(run[r].data.orderId)
           k == run[r].item
       IN /\ \/ /\ UNCHANGED stock
                /\ run' = [run EXCEPT ![r].item = k + 1]
             \/ /\ stock' = Decrement(stock, items[k])
                /\ run' = [run EXCEPT ![r].item = k + 1, ![r].decs = @ + 1]
          /\ pc' = [pc EXCEPT ![r] =
                      IF k < Len(items) THEN "productUpdate" ELSE "createShipment"]
    /\ UNCHANGED << payments, orders, shipReq, calls, courier >>

\* one turn of `for (const item of updatedOrder.orderItems)`:
\* await prisma.product.update({ data: { stock: { decrement: item.quantity } } })
PP_UpdateProduct(r) ==
    /\ pc[r] = "productUpdate"
    /\ LET items == OrderItems(run[r].data.orderId)
           k == run[r].item
       IN \/ /\ Caught(r, "productUpdate")
             /\ UNCHANGED stock
          \/ /\ stock' = Decrement(stock, items[k])
             /\ pc' = [pc EXCEPT ![r] =
                         IF k < Len(items) THEN "productUpdate" ELSE "createShipment"]
             /\ run' = [run EXCEPT ![r].item = k + 1, ![r].decs = @ + 1]
    /\ UNCHANGED << payments, orders, shipReq, calls, courier >>

\* await createDelhiveryShipment({ orderId }) inside its own try/catch: whatever
\* the call does (success, success=false, throw) the run returns success.
ShipmentOutcomes == {"created", "failed", "threw"}

\* (mutant) the call is not wrapped in a try/catch of its own: a throw reaches
\* the catch of the handler
PP_CreateShipmentUncaught(r) ==
    /\ pc[r] = "createShipment"
    /\ shipReq' = [shipReq EXCEPT ![run[r].data.orderId] = @ + 1]
    /\ \E out \in ShipmentOutcomes :
          run' = [run EXCEPT ![r].shipCalls = @ + 1,
                             ![r].shipOutcome = out,
                             ![r].threw = IF out = "threw" THEN "createShipment" ELSE "",
                             ![r].result = IF out = "threw"
                                           THEN Result(FALSE, "shipment error", "")
                                           ELSE Returned(run[r].paymentStatus)]
    /\ pc' = [pc EXCEPT ![r] = "done"]
    /\ UNCHANGED << payments, orders, stock, calls, courier >>

PP_CreateShipment(r) ==
    /\ pc[r] = "createShipment"
    /\ shipReq' = [shipReq EXCEPT ![run[r].data.orderId] = @ + 1]
    /\ \E out \in ShipmentOutcomes :
          run' = [run EXCEPT ![r].shipCalls = @ + 1,
                             ![r].shipOutcome = out,
                             ![r].result = Returned(run[r].paymentStatus)]
    /\ pc' = [pc EXCEPT ![r] = "done"]
    /\ UNCHANGED << payments, orders, stock, calls, courier >>

\* ------------------------------------------------------- refundPayment
\* refundPayment(paymentId) up to its first storage write: findUnique and the
\* two early returns.
RF_FindPayment(r, id) ==
    /\ Free(r)
    /\ calls < MaxCalls
    /\ calls' = calls + 1
    /\ LET st == Started(r, "refundPayment")
           me == [st[r] EXCEPT !.paymentId = id, !.existed = (id \in DOMAIN payments)]
       IN \/ /\ pc' = [pc EXCEPT ![r] = "done"]       \* findUnique rejects
             /\ run' = [st EXCEPT ![r] = [me EXCEPT !.threw = "findUnique",
                                    !.result = Result(FALSE, StorageError, "")]]
          \/ /\ id \notin DOMAIN payments              \* if (!payment)
             /\ pc' = [pc EXCEPT ![r] = "done"]
             /\ run' = [st EXCEPT ![r] = [me EXCEPT
                          !.result = Result(FALSE, "Payment not found", "")]]
          \/ /\ id \in DOMAIN payments
             /\ payments[id].status # "COMPLETED"
             /\ pc' = [pc EXCEPT ![r] = "done"]
             /\ run' = [st EXCEPT ![r] = [me EXCEPT
                          !.result = Result(FALSE, "Payment is not completed", "")]]
          \/ /\ id \in DOMAIN payments
             /\ payments[id].status = "COMPLETED"
             /\ pc' = [pc EXCEPT ![r] = "refundPaymentUpdate"]
             /\ run' = [st EXCEPT ![r] = me]
    /\ UNCHANGED << payments, orders, stock, shipReq, courier >>

\* await prisma.payment.update({ where: { id: paymentId }, data: { status: 'REFUNDED' } })
RF_UpdatePayment(r) ==
    /\ pc[r] = "refundPaymentUpdate"
    /\ \/ /\ Caught(r, "paymentUpdate")
          /\ UNCHANGED payments
       \/ /\ payments' = [payments EXCEPT ![run[r].paymentId] = RefundedPayment(@)]
          /\ pc' = [pc EXCEPT ![r] = "refundOrderUpdate"]
          /\ run' = [run EXCEPT ![r].payWritten = "REFUNDED"]
    /\ UNCHANGED << orders, stock, shipReq, calls, courier >>

\* (mutant) the refund puts the first item of the order back in stock
RF_UpdateOrderRestocking(r) ==
    /\ pc[r] = "refundOrderUpdate"
    /\ \/ /\ Caught(r, "orderUpdate")
          /\ UNCHANGED << orders, stock >>
       \/ /\ orders' = [orders EXCEPT ![payments[run[r].paymentId].orderId] = "REFUNDED"]
          /\ stock' = Decrement(stock,
                          [OrderItems(payments[run[r].paymentId].orderId)[1]
                              EXCEPT !.quantity = 0 - @])
          /\ pc' = [pc EXCEPT ![r] = "done"]
          /\ run' = [run EXCEPT ![r].orderWritten = "REFUNDED",
                                ![r].result = Result(TRUE, "", "Payment refunded successfully")]
    /\ UNCHANGED << payments, shipReq, calls, courier >>

\* await prisma.order.update({ where: { id: payment.orderId }, data: { status: 'REFUNDED' } })
RF_UpdateOrder(r) ==
    /\ pc[r] = "refundOrderUpdate"
    /\ \/ /\ Caught(r, "orderUpdate")
          /\ UNCHANGED orders
       \/ /\ orders' = [orders EXCEPT ![payments[run[r].paymentId].orderId] = "REFUNDED"]
          /\ pc' = [pc EXCEPT ![r] = "done"]
          /\ run' = [run EXCEPT ![r].orderWritten = "REFUNDED",
                                ![r].result = Result(TRUE, "", "Payment refunded successfully")]
    /\ UNCHANGED << payments, stock, shipReq, calls, courier >>

\* -------------------------------------------------- createPaymentOrder
\* The handler reads the order, asks the gateway for an order and inserts one
\* Payment row; nothing it reads is written by another handler, so it is one step.
\* razorpayResult.order.id: the gateway names every order it creates differently.
\* An order whose Payment row was never inserted is referred to by no row, so the
\* ids of the rows are all that matters: the n-th row carries gateway order n.
GatewayOrderId == Len(payments) + 1

CreateOutcomes == {"findUnique threw", "gateway failed", "create threw", "ok"}

\* the record of a createPaymentOrder run that has returned
CreateReturned(r, res, asked, step) ==
    /\ pc' = [pc EXCEPT ![r] = "done"]
    /\ run' = [Started(r, "createPaymentOrder") EXCEPT
                  ![r].result = res, ![r].gatewayCalled = asked, ![r].threw = step]

\* (mutant) prisma.payment.create ahead of the test of razorpayResult.success
createPaymentOrderEager(r, o, out) ==
    /\ Free(r)
    /\ Len(payments) < MaxPayments
    /\ \/ /\ out = "findUnique threw"
          /\ CreateReturned(r, Result(FALSE, StorageError, ""), FALSE, "findUnique")
          /\ UNCHANGED payments
       \/ /\ out # "findUnique threw"
          /\ o \notin OrderIds
          /\ CreateReturned(r, Result(FALSE, "Order not found", ""), FALSE, "")
          /\ UNCHANGED payments
       \/ /\ out = "gateway failed"
          /\ o \in OrderIds
          /\ payments' = Append(payments, NewPayment(o, GatewayOrderId))
          /\ CreateReturned(r, Result(FALSE, "gateway error", ""), TRUE, "")
       \/ /\ out = "create threw"
          /\ o \in OrderIds
          /\ CreateReturned(r, Result(FALSE, StorageError, ""), TRUE, "create")
          /\ UNCHANGED payments
       \/ /\ out = "ok"
          /\ o \in OrderIds
          /\ payments' = Append(payments, NewPayment(o, GatewayOrderId))
          /\ CreateReturned(r, Result(TRUE, "", ""), TRUE, "")
    /\ UNCHANGED << orders, stock, shipReq, calls, courier >>

createPaymentOrder(r, o, out) ==
    /\ Free(r)
    /\ Len(payments) < MaxPayments
    /\ \/ /\ out = "findUnique threw"
          /\ CreateReturned(r, Result(FALSE, StorageError, ""), FALSE, "findUnique")
          /\ UNCHANGED payments
       \/ /\ out # "findUnique threw"
          /\ o \notin OrderIds                         \* if (!order)
          /\ CreateReturned(r, Result(FALSE, "Order not found", ""), FALSE, "")
          /\ UNCHANGED payments
       \/ /\ out = "gateway failed"                    \* if (!razorpayResult.success)
          /\ o \in OrderIds
          /\ CreateReturned(r, Result(FALSE, "gateway error", ""), TRUE, "")
          /\ UNCHANGED payments
       \/ /\ out = "create threw"                      \* prisma.payment.create rejects
          /\ o \in OrderIds
          /\ CreateReturned(r, Result(FALSE, StorageError, ""), TRUE, "create")
          /\ UNCHANGED payments
       \/ /\ out = "ok"
          /\ o \in OrderIds
          /\ payments' = Append(payments, NewPayment(o, GatewayOrderId))
          /\ CreateReturned(r, Result(TRUE, "", ""), TRUE, "")
    /\ UNCHANGED << orders, stock, shipReq, calls, courier >>

Next ==
    \/ \E r \in Procs, o \in OrderIds \cup UnknownOrderIds, out \in CreateOutcomes :
          createPaymentOrder(r, o, out)
    \/ \E r \in Procs, d \in ProcessRequests : PP_FindPayment(r, d)
    \/ \E r \in Procs : PP_UpdatePayment(r)
    \/ \E r \in Procs : PP_UpdateOrder(r)
    \/ \E r \in Procs : PP_UpdateProduct(r)
    \/ \E r \in Procs : PP_CreateShipment(r)
    \/ \E r \in Procs, id \in 1..(MaxPayments + 1) : RF_FindPayment(r, id)
    \/ \E r \in Procs : RF_UpdatePayment(r)
    \/ \E r \in Procs : RF_UpdateOrder(r)

Spec == Init /\ [][Next]_vars

\* The steps a processPayment run takes after its lookup: each is the return or
\* the rejection of the call the run awaits.
ProcessStep(r) ==
    \/ PP_UpdatePayment(r)
    \/ PP_UpdateOrder(r)
    \/ PP_UpdateProduct(r)
    \/ PP_CreateShipment(r)

\* Every storage and courier call a run awaits eventually returns or rejects
\* (the courier adapter gives up after its timeout).
LiveSpec == Spec /\ \A r \in Procs : WF_vars(ProcessStep(r))

\* ------------------------------------------- lib/delhivery.ts (courier)
\* A text is a sequence of pieces, << >> being the empty (or absent) text.
DELHIVERY_BASE_URL == "https://track.delhivery.com"
DELHIVERY_API_KEY == "api-key"
DELHIVERY_CLIENT_NAME == "ElegantJewelry"
CREATE_PACKAGE == "/api/cmu/create.json"
Timeout == 30000

\* a DelhiveryShipmentRequest
ShipmentData == [pickup_location |-> "warehouse", shipments |-> << "shipment" >>]

\* the values the courier can put in a package's `serviceable`
JsString(v) == [type |-> "string", value |-> v]
JsBoolean(v) == [type |-> "boolean", value |-> v]

\* an element of response.packages; the element may be null
Package(serviceable) ==
    [isNull |-> FALSE, waybill |-> "WB1", refnum |-> "R1", payment_mode |-> "Pre-paid",
     serviceable |-> serviceable, status |-> "Success"]

NullPackage ==
    [isNull |-> TRUE, waybill |-> "", refnum |-> "", payment_mode |-> "",
     serviceable |-> JsBoolean("false"), status |-> ""]

\* a JSON body: null, or an object that may hold `packages` and `error`
Body(packages, error) ==
    [isNull |-> FALSE, hasPackages |-> TRUE, packages |-> packages, error |-> error]

BodyWithoutPackages(error) ==
    [isNull |-> FALSE, hasPackages |-> FALSE, packages |-> << >>, error |-> error]

NullBody ==
    [isNull |-> TRUE, hasPackages |-> FALSE, packages |-> << >>, error |-> << >>]

\* What `await axios(url, config)` can do: resolve with response.data, or reject
\* with an error that has a message and, when the courier answered, a response.
\* `cause` names what happened at the courier's end.
Resolved(cause, data) ==
    [rejected |-> FALSE, cause |-> cause, data |-> data, message |-> << >>]

Rejected(cause, data, message) ==
    [rejected |-> TRUE, cause |-> cause, data |-> data, message |-> message]

AxiosOutcomes ==
    { Resolved("created", Body(<< Package(JsString("true")) >>, << >>)),
      Resolved("created", Body(<< Package(JsBoolean("true")) >>, << >>)),
      Resolved("created", Body(<< Package(JsString("false")), Package(JsBoolean("false")) >>, << >>)),
      Resolved("created", Body(<< Package(JsString("true")) >>, << "partial failure" >>)),
      Resolved("configuration",
               Body(<< >>, << "ClientWarehouse matching query does not exist." >>)),
      Resolved("configuration", BodyWithoutPackages(<< "format key missing in POST" >>)),
      Resolved("malformed", Body(<< >>, << >>)),
      Resolved("malformed", BodyWithoutPackages(<< >>)),
      Resolved("malformed", NullBody),
      Resolved("malformed", Body(<< NullPackage >>, << >>)),
      Rejected("configuration", BodyWithoutPackages(<< "Invalid token" >>),
               << "Request failed with status code 401" >>),
      Rejected("transient", NullBody, << "timeout of 30000ms exceeded" >>),
      Rejected("transient", NullBody, << "Network Error" >>),
      Rejected("transient", BodyWithoutPackages(<< >>),
               << "Request failed with status code 503" >>) }

\* the axios config makeRequest builds; axios sends a config.data object as JSON
RequestOf(endpoint, method, data) ==
    [url |-> << DELHIVERY_BASE_URL, endpoint >>,
     method |-> method,
     headers |-> [Authorization |-> << "Token ", DELHIVERY_API_KEY >>,
                  ContentType |-> "application/json",
                  Accept |-> "application/json"],
     timeout |-> Timeout,
     body |-> IF method = "POST"
              THEN [encoding |-> "json", keys |-> DOMAIN data, value |-> data]
              ELSE [encoding |-> "none", keys |-> {}, value |-> data]]

\* what a function hands back: a value, or an Error thrown with a message
Value(v) == [threw |-> FALSE, value |-> v, message |-> << >>]
Thrown(message) == [threw |-> TRUE, value |-> NullBody, message |-> message]

\* makeRequest: response.data, or
\* throw new Error(`Delhivery API Error: ${error.response?.data?.error || error.message}`)
makeRequest(endpoint, method, data, outcome) ==
    IF ~outcome.rejected
    THEN Value(outcome.data)
    ELSE Thrown(<< "Delhivery API Error: " >> \o
                (IF ~outcome.data.isNull /\ outcome.data.error # << >>
                 THEN outcome.data.error ELSE outcome.message))

\* pkg.serviceable === 'true' || pkg.serviceable === true
Serviceable(pkg) ==
    pkg.serviceable = JsString("true") \/ pkg.serviceable = JsBoolean("true")

\* the element of `packages` made of pkg
PackageOf(pkg) ==
    [waybill |-> pkg.waybill, refnum |-> pkg.refnum, payment_mode |-> pkg.payment_mode,
     serviceable |-> Serviceable(pkg), status |-> pkg.status]

\* DelhiveryShipmentResponse
ShipmentResponse(success, packages, error) ==
    [threw |-> FALSE, success |-> success, packages |-> packages, error |-> error,
     message |-> << >>]

ShipmentThrown(message) ==
    [threw |-> TRUE, success |-> FALSE, packages |-> << >>, error |-> << >>,
     message |-> message]

\* the try block of createShipment; reading a field of a null element throws
createShipmentTry(shipmentData, outcome) ==
    LET response == makeRequest(CREATE_PACKAGE, "POST", shipmentData, outcome)
        data == response.value
    IN IF response.threw
       THEN ShipmentThrown(response.message)
       ELSE IF ~data.isNull /\ data.hasPackages /\ Len(data.packages) > 0
       THEN IF \E i \in DOMAIN data.packages : data.packages[i].isNull
            THEN ShipmentThrown(<< "Cannot read properties of null (reading 'waybill')" >>)
            ELSE ShipmentResponse(TRUE,
                                  [i \in DOMAIN data.packages |-> PackageOf(data.packages[i])],
                                  << >>)
       ELSE IF ~data.isNull /\ data.error # << >>
       THEN ShipmentResponse(FALSE, << >>, data.error)
       ELSE ShipmentThrown(<< "Invalid response format from Delhivery" >>)

\* (mutant) createShipment without its catch block
createShipmentUncaught(shipmentData, outcome) ==
    createShipmentTry(shipmentData, outcome)

\* createShipment: the try block and its catch
createShipment(shipmentData, outcome) ==
    LET tried == createShipmentTry(shipmentData, outcome)
    IN IF tried.threw
       THEN ShipmentResponse(FALSE, << >>, tried.message)
       ELSE tried

\* one call of DelhiveryService.createShipment, the courier doing `outcome`
DS_createShipment(outcome) ==
    /\ Len(courier) < MaxShipmentCalls
    /\ courier' = Append(courier,
                         [outcome |-> outcome,
                          sent |-> RequestOf(CREATE_PACKAGE, "POST", ShipmentData),
                          result |-> createShipment(ShipmentData, outcome)])
    /\ UNCHANGED << payments, orders, stock, shipReq, calls, pc, run >>

CourierNext == \E outcome \in AxiosOutcomes : DS_createShipment(outcome)

CourierSpec == Init /\ [][CourierNext]_vars

\* ====================================================================
\* Properties
\* ====================================================================
IsProcess(r) == run[r].op = "processPayment"
IsRefund(r) == run[r].op = "refundPayment"

\* the run x consulted the verifier with the three fields of its own request and
\* the verifier answered true
VerifiedBy(x) ==
    /\ x.verifyCalled
    /\ x.verifyArgs.razorpay_order_id = x.data.razorpayOrderId
    /\ x.verifyArgs.razorpay_payment_id = x.data.razorpayPaymentId
    /\ x.verifyArgs.razorpay_signature = x.data.razorpaySignature
    /\ x.verifyResult
    /\ x.verifyArgs.razorpay_signature =
          Hmac(x.verifyArgs.razorpay_order_id, x.verifyArgs.razorpay_payment_id)

\* C1: a Payment row is written COMPLETED (and an Order row CONFIRMED) only by the
\* payment.update / order.update step of a processPayment run that called
\* verifyRazorpayPayment with its request's razorpayOrderId, razorpayPaymentId and
\* razorpaySignature and got true; no step of createPaymentOrder or refundPayment,
\* and no other step of processPayment, makes a payment COMPLETED.
C1_CompletedOnlyAfterVerification ==
    [][ /\ \A i \in DOMAIN payments' :
              ( /\ payments'[i].status = "COMPLETED"
                /\ (i \notin DOMAIN payments \/ payments[i].status # "COMPLETED") )
              => \E r \in Procs :
                    /\ IsProcess(r) /\ pc[r] = "paymentUpdate" /\ pc'[r] = "orderUpdate"
                    /\ run[r].paymentId = i
                    /\ VerifiedBy(run[r])
        /\ \A o \in OrderIds :
              (orders'[o] = "CONFIRMED" /\ orders[o] # "CONFIRMED")
              => \E r \in Procs :
                    /\ IsProcess(r) /\ pc[r] = "orderUpdate"
                    /\ run[r].data.orderId = o
                    /\ VerifiedBy(run[r])
        /\ \A r \in Procs :
              (run'[r].payWritten = "COMPLETED" \/ run'[r].orderWritten = "CONFIRMED")
              => VerifiedBy(run'[r])
      ]_vars

C1_Witness ==
    \E r \in Procs :
        /\ IsProcess(r) /\ pc[r] = "done"
        /\ run[r].payWritten = "COMPLETED" /\ run[r].orderWritten = "CONFIRMED"
        /\ payments[run[r].paymentId].status = "COMPLETED"
        /\ orders[run[r].data.orderId] = "CONFIRMED"
        /\ VerifiedBy(run[r])

\* no call on record ran while another was in flight: the calls came one after
\* the other
Sequential == \A r \in Procs : ~run[r].overlapped

\* C2 as stated: in every state reached by calls made one after the other, a
\* Payment's paidAt is non-null if and only if its status is COMPLETED.
C2_PaidAtIffCompleted ==
    Sequential =>
        \A i \in DOMAIN payments :
            payments[i].paidAt <=> payments[i].status = "COMPLETED"

\* C2 (amended): in every reachable state a Payment whose paidAt is non-null has
\* status COMPLETED or REFUNDED and a COMPLETED Payment has a paidAt (PENDING and
\* FAILED payments carry none); when the calls came one after the other a REFUNDED
\* Payment has a paidAt too, the one the refund kept.
C2_PaidAtIffCompletedOrRefunded ==
    \A i \in DOMAIN payments :
        /\ payments[i].paidAt => payments[i].status \in {"COMPLETED", "REFUNDED"}
        /\ payments[i].status = "COMPLETED" => payments[i].paidAt
        /\ (Sequential /\ payments[i].status = "REFUNDED") => payments[i].paidAt

C2_Witness ==
    \E i \in DOMAIN payments :
        /\ payments[i].status = "REFUNDED" /\ payments[i].paidAt
        /\ \E r \in Procs : IsRefund(r) /\ run[r].paymentId = i /\ run[r].payWritten = "REFUNDED"

\* the status changes the state machine of Payment.status allows
PaymentTransitions ==
    { << "PENDING", "COMPLETED" >>, << "PENDING", "FAILED" >>, << "COMPLETED", "REFUNDED" >> }

\* C3: across calls made one after the other, a Payment's status changes only
\* along PENDING -> COMPLETED, PENDING -> FAILED and COMPLETED -> REFUNDED.
C3_PaymentStatusOneWay ==
    [][ Sequential' =>
        \A i \in DOMAIN payments :
            \/ payments'[i].status = payments[i].status
            \/ << payments[i].status, payments'[i].status >> \in PaymentTransitions ]_vars

\* the status changes the state machine of Order.status allows
OrderTransitions ==
    { << "PENDING", "CONFIRMED" >>, << "PENDING", "FAILED" >>,
      << "CONFIRMED", "REFUNDED" >>, << "FAILED", "REFUNDED" >> }

\* C4: across calls made one after the other, an Order's status changes only
\* along PENDING -> CONFIRMED, PENDING -> FAILED and then -> REFUNDED.
C4_OrderStatusOneWay ==
    [][ Sequential' =>
        \A o \in OrderIds :
            \/ orders'[o] = orders[o]
            \/ << orders[o], orders'[o] >> \in OrderTransitions ]_vars

\* C5: when a processPayment run has returned, it has written Payment.status and
\* Order.status both or neither.
C5_PaymentAndOrderWrittenTogether ==
    \A r \in Procs :
        (IsProcess(r) /\ pc[r] = "done")
        => (run[r].payWritten = "" <=> run[r].orderWritten = "")

\* the quantity of product p the lines of order o ask for
RECURSIVE QuantityIn(_, _)
QuantityIn(items, p) ==
    IF items = << >> THEN 0
    ELSE (IF Head(items).productId = p THEN Head(items).quantity ELSE 0)
         + QuantityIn(Tail(items), p)

\* C6: a processPayment call that repeats the call before it (the same orderId,
\* razorpayOrderId, razorpayPaymentId and razorpaySignature, a valid signature, the
\* first call returned success) does not decrement stock again: when these are
\* the only two calls and the second has returned success, every product's stock
\* is the initial stock less the order's quantity, once.
C6_SecondCallDoesNotDecrementAgain ==
    \A r \in Procs :
        (IsProcess(r) /\ run[r].repeat /\ ~run[r].overlapped)
        => /\ run[r].decs = 0
           /\ (calls = 2 /\ pc[r] = "done" /\ run[r].result.success)
              => \A p \in Products :
                    stock[p] = InitialStock - QuantityIn(OrderItems(run[r].data.orderId), p)

\* C7: across processPayment calls made one after the other, at most one
\* createDelhiveryShipment request is ever issued for an order.
C7_AtMostOneShipmentRequestPerOrder ==
    Sequential => \A o \in OrderIds : shipReq[o] <= 1

\* C8: when two processPayment runs with valid signatures have run concurrently,
\* each for an order that asks quantity 1 of a product whose stock was 1, and both
\* have got as far as the stock loop and returned, exactly one of them has
\* decremented the stock of that product and the stock is 0.
C8_ConcurrentRunsDoNotOversell ==
    \A p \in Products :
        ( /\ calls = 2
          /\ InitialStock = 1
          /\ \A r \in Procs :
                /\ IsProcess(r) /\ pc[r] = "done"
                /\ run[r].overlapped
                /\ run[r].verifyResult
                /\ run[r].threw \notin {"findFirst", "paymentUpdate", "orderUpdate"}
                /\ QuantityIn(OrderItems(run[r].data.orderId), p) = 1 )
        => /\ stock[p] = 0
           /\ Cardinality({ r \in Procs : run[r].decs > 0 }) = 1

\* C9: a processPayment run whose (orderId, razorpayOrderId) matched no Payment
\* row when it looked the payment up (and whose lookup did not reject) returns
\* at once { success: false, error: 'Payment record not found' }: the step writes
\* no Payment, no Order and no stock, issues no shipment request, and the run has
\* not consulted the verifier.
C9_MissingPaymentChangesNothing ==
    [][ \A r \in Procs :
            ( /\ Free(r) /\ calls' = calls + 1
              /\ run'[r].op = "processPayment"
              /\ ~run'[r].existed
              /\ run'[r].threw = "" )
            => /\ pc'[r] = "done"
               /\ run'[r].result = Result(FALSE, "Payment record not found", "")
               /\ UNCHANGED << payments, orders, stock, shipReq >>
               /\ ~run'[r].verifyCalled
               /\ run'[r].payWritten = "" /\ run'[r].orderWritten = ""
               /\ run'[r].decs = 0 /\ run'[r].shipCalls = 0 ]_vars

C9_Witness ==
    \E r \in Procs :
        /\ IsProcess(r) /\ pc[r] = "done"
        /\ ~run[r].existed /\ run[r].threw = ""
        /\ payments # << >>
        /\ run[r].result.error = "Payment record not found"

\* the request lacks what the verification needs
LacksRazorpayFields(d) ==
    \/ d.paymentMethod # "razorpay"
    \/ d.razorpayPaymentId = ""
    \/ d.razorpaySignature = << >>

\* C10: a processPayment run whose paymentMethod is not 'razorpay', or whose
\* razorpayPaymentId or razorpaySignature is absent, never consults the verifier,
\* never writes COMPLETED or CONFIRMED, decrements no stock, issues no shipment
\* request and returns success=false; when it has found its payment and no
\* storage call rejected, it has written Payment.status=FAILED and
\* Order.status=FAILED.
C10_FailClosed ==
    \A r \in Procs :
        (IsProcess(r) /\ LacksRazorpayFields(run[r].data))
        => /\ ~run[r].verifyCalled
           /\ run[r].payWritten \in {"", "FAILED"}
           /\ run[r].orderWritten \in {"", "FAILED"}
           /\ run[r].decs = 0 /\ run[r].shipCalls = 0
           /\ pc[r] \in {"paymentUpdate", "orderUpdate", "done"}
           /\ pc[r] = "done" =>
                 /\ ~run[r].result.success
                 /\ (run[r].existed /\ run[r].threw = "") =>
                       /\ run[r].payWritten = "FAILED"
                       /\ run[r].orderWritten = "FAILED"

C10_Witness ==
    \E r \in Procs :
        /\ IsProcess(r) /\ pc[r] = "done"
        /\ run[r].data.paymentMethod = "cod"
        /\ run[r].data.razorpaySignature =
              Hmac(run[r].data.razorpayOrderId, run[r].data.razorpayPaymentId)
        /\ run[r].payWritten = "FAILED" /\ run[r].orderWritten = "FAILED"
        /\ payments[run[r].paymentId].status = "FAILED"
        /\ orders[run[r].data.orderId] = "FAILED"
        /\ ~run[r].result.success

\* the run x consulted the verifier and the verifier answered false
RejectedBy(x) == x.op = "processPayment" /\ x.verifyCalled /\ ~x.verifyResult

\* C11: a processPayment run whose signature verification returned false (its
\* payment exists) writes no status but FAILED, decrements no stock and issues no
\* shipment request: none of its steps changes a stock or the shipment requests.
\* When it has returned and no storage call rejected, it has written
\* Payment.status=FAILED and Order.status=FAILED and returned success=false, and
\* when no other call ran beside it the two rows hold FAILED.
C11_FailedVerificationFrame ==
    [][ \A r \in Procs :
            RejectedBy(run'[r])
            => /\ run'[r].existed
               /\ run'[r].payWritten \in {"", "FAILED"}
               /\ run'[r].orderWritten \in {"", "FAILED"}
               /\ run'[r].decs = 0 /\ run'[r].shipCalls = 0
               /\ (InFlight(r) /\ pc'[r] # pc[r]) => UNCHANGED << stock, shipReq >>
               /\ (pc'[r] = "done" /\ run'[r].threw = "")
                  => /\ run'[r].payWritten = "FAILED"
                     /\ run'[r].orderWritten = "FAILED"
                     /\ ~run'[r].result.success
                     /\ ~run'[r].overlapped
                        => /\ payments'[run'[r].paymentId].status = "FAILED"
                           /\ orders'[run'[r].data.orderId] = "FAILED" ]_vars

C11_Witness ==
    \E r \in Procs :
        /\ RejectedBy(run[r]) /\ pc[r] = "done" /\ run[r].threw = ""
        /\ run[r].data.razorpaySignature = ForgedSignature
        /\ payments[run[r].paymentId].status = "FAILED"
        /\ orders[run[r].data.orderId] = "FAILED"
        /\ \A p \in Products : stock[p] = InitialStock
        /\ \A o \in OrderIds : shipReq[o] = 0

\* the run x consulted the verifier and the verifier answered true
AcceptedBy(x) == x.op = "processPayment" /\ x.verifyCalled /\ x.verifyResult

\* C12: a processPayment run whose signature verification succeeded takes, in
\* each turn of its stock loop that does not reject, exactly the item's quantity
\* from the stock of the item's product and nothing from any other; when it has
\* returned and no storage call rejected it has written Payment.status=COMPLETED
\* and Order.status=CONFIRMED, decremented once per order item, issued exactly
\* one shipment request and returned success.  When it is the single run, the two
\* rows hold COMPLETED and CONFIRMED, every product's stock is the initial stock
\* less the quantity the order asks of it, and the order has one shipment request.
C12_SuccessfulRun ==
    [][ \A r \in Procs :
            AcceptedBy(run'[r])
            => LET items == OrderItems(run'[r].data.orderId)
               IN /\ (pc[r] = "productUpdate" /\ run'[r].decs = run[r].decs + 1)
                     => \A p \in Products :
                           stock'[p] = stock[p] -
                              (IF p = items[run[r].item].productId
                               THEN items[run[r].item].quantity ELSE 0)
                  /\ (pc'[r] = "done" /\ run'[r].threw = "")
                     => /\ run'[r].payWritten = "COMPLETED"
                        /\ run'[r].orderWritten = "CONFIRMED"
                        /\ run'[r].decs = Len(items)
                        /\ run'[r].shipCalls = 1
                        /\ run'[r].result.success
                        /\ calls' = 1
                           => /\ payments'[run'[r].paymentId].status = "COMPLETED"
                              /\ orders'[run'[r].data.orderId] = "CONFIRMED"
                              /\ \A p \in Products :
                                    stock'[p] = InitialStock - QuantityIn(items, p)
                              /\ shipReq'[run'[r].data.orderId] = 1 ]_vars

C12_Witness ==
    \E r \in Procs :
        /\ AcceptedBy(run[r]) /\ pc[r] = "done" /\ run[r].threw = ""
        /\ calls = 1
        /\ payments[run[r].paymentId].status = "COMPLETED"
        /\ orders[run[r].data.orderId] = "CONFIRMED"
        /\ stock[2] = InitialStock - 2
        /\ shipReq[run[r].data.orderId] = 1

\* C13: when the createDelhiveryShipment call of a processPayment run returns
\* success=false or throws, the step changes no Payment, no Order and no stock
\* (the COMPLETED and CONFIRMED the run wrote and its decrements are kept), the
\* run ends in no catch block and returns success=true; when no other call ran
\* beside it the two rows hold COMPLETED and CONFIRMED.
C13_ShipmentFailureKeepsThePayment ==
    [][ \A r \in Procs :
            ( /\ pc[r] = "createShipment" /\ pc'[r] # pc[r]
              /\ run'[r].shipOutcome \in {"failed", "threw"} )
            => /\ UNCHANGED << payments, orders, stock >>
               /\ pc'[r] = "done"
               /\ run'[r].threw = ""
               /\ run'[r].result.success /\ run'[r].result.error = ""
               /\ run'[r].payWritten = "COMPLETED"
               /\ run'[r].orderWritten = "CONFIRMED"
               /\ run'[r].decs = Len(OrderItems(run'[r].data.orderId))
               /\ ~run'[r].overlapped
                  => /\ payments'[run'[r].paymentId].status = "COMPLETED"
                     /\ orders'[run'[r].data.orderId] = "CONFIRMED" ]_vars

C13_Witness ==
    \E r \in Procs :
        /\ IsProcess(r) /\ pc[r] = "done"
        /\ run[r].shipOutcome = "threw"
        /\ run[r].result.success
        /\ payments[run[r].paymentId].status = "COMPLETED"
        /\ orders[run[r].data.orderId] = "CONFIRMED"
        /\ stock[1] = InitialStock - 1

\* C14: every shipment request is issued by the createDelhiveryShipment step of a
\* processPayment run that has by then written Payment.status=COMPLETED and
\* Order.status=CONFIRMED and applied the decrement of every item of the order,
\* none of its storage calls having rejected; when no other call ran beside the
\* run, the two rows hold COMPLETED and CONFIRMED in the state the request is
\* issued in.
C14_ShipmentOnlyAfterTheWrites ==
    [][ \A o \in OrderIds :
            shipReq'[o] # shipReq[o]
            => \E r \in Procs :
                  /\ IsProcess(r) /\ pc[r] = "createShipment" /\ pc'[r] = "done"
                  /\ run[r].data.orderId = o
                  /\ shipReq'[o] = shipReq[o] + 1
                  /\ VerifiedBy(run[r])
                  /\ run[r].payWritten = "COMPLETED"
                  /\ run[r].orderWritten = "CONFIRMED"
                  /\ run[r].decs = Len(OrderItems(o))
                  /\ run[r].threw = ""
                  /\ ~run[r].overlapped
                     => /\ payments[run[r].paymentId].status = "COMPLETED"
                        /\ orders[o] = "CONFIRMED" ]_vars

C14_Witness ==
    \E r \in Procs :
        /\ IsProcess(r) /\ pc[r] = "done"
        /\ run[r].shipCalls = 1 /\ run[r].shipOutcome = "created"
        /\ shipReq[run[r].data.orderId] = 1
        /\ run[r].decs = Len(OrderItems(run[r].data.orderId))
        /\ run[r].payWritten = "COMPLETED" /\ run[r].orderWritten = "CONFIRMED"

\* C15: every result with success=false that createPaymentOrder, processPayment
\* or refundPayment has returned carries an error.
C15_FailureCarriesAnError ==
    \A r \in Procs :
        (pc[r] = "done" /\ ~run[r].result.success) => run[r].result.error # ""

\* C20: when the product.update of the k-th item of a verified processPayment run
\* rejects, the step changes no stock, no Payment and no Order and issues no
\* shipment request: the run has decremented the items 1..k-1 and no other, has
\* written COMPLETED and CONFIRMED, has issued no shipment request and returns
\* success=false with the error.  When it is the single run, the stock of every
\* product is the initial stock less what the items 1..k-1 ask of it and the two
\* rows hold COMPLETED and CONFIRMED.
C20_MidLoopFailure ==
    [][ \A r \in Procs :
            (pc[r] = "productUpdate" /\ run'[r].threw = "productUpdate")
            => LET items == OrderItems(run[r].data.orderId)
                   k == run[r].item
               IN /\ UNCHANGED << stock, payments, orders, shipReq >>
                  /\ pc'[r] = "done"
                  /\ VerifiedBy(run'[r])
                  /\ run'[r].decs = k - 1 /\ run'[r].item = k
                  /\ run'[r].shipCalls = 0
                  /\ run'[r].payWritten = "COMPLETED"
                  /\ run'[r].orderWritten = "CONFIRMED"
                  /\ run'[r].result = Result(FALSE, StorageError, "")
                  /\ calls' = 1
                     => /\ \A p \in Products :
                              stock'[p] = InitialStock - QuantityIn(SubSeq(items, 1, k - 1), p)
                        /\ payments'[run'[r].paymentId].status = "COMPLETED"
                        /\ orders'[run'[r].data.orderId] = "CONFIRMED"
                        /\ shipReq'[run'[r].data.orderId] = 0 ]_vars

C20_Witness ==
    \E r \in Procs :
        /\ IsProcess(r) /\ pc[r] = "done" /\ run[r].threw = "productUpdate"
        /\ run[r].item = 2 /\ run[r].decs = 1
        /\ calls = 1
        /\ stock[1] = InitialStock - 1 /\ stock[2] = InitialStock
        /\ payments[run[r].paymentId].status = "COMPLETED"
        /\ orders[run[r].data.orderId] = "CONFIRMED"
        /\ ~run[r].result.success

\* the storage calls of processPayment
StorageSteps == {"findFirst", "paymentUpdate", "orderUpdate", "productUpdate"}

\* C16: provided every call a processPayment run awaits returns or rejects, no
\* run stays in flight for ever: every invocation eventually returns.  What it
\* returns is a result value (it never ends by throwing), and when a storage call
\* rejected the result is success=false with the error's message.
C16_AlwaysReturns ==
    /\ \A r \in Procs : []<>(~(IsProcess(r) /\ InFlight(r)))
    /\ [](\A r \in Procs :
            IsProcess(r)
            => /\ pc[r] \in {"paymentUpdate", "orderUpdate", "productUpdate",
                              "createShipment", "done"}
               /\ pc[r] = "done"
                  => /\ run[r].result # NoResult
                     /\ run[r].threw # ""
                        => /\ run[r].threw \in StorageSteps
                           /\ ~run[r].result.success
                           /\ run[r].result.error = StorageError
                           /\ run[r].result.error # "")

C16_Witness ==
    \E r \in Procs :
        /\ IsProcess(r) /\ pc[r] = "done"
        /\ run[r].threw = "orderUpdate"
        /\ run[r].result = Result(FALSE, StorageError, "")

\* C17: every request createShipment sends to the create endpoint is a POST whose
\* body is URL-encoded with the keys format, client and data, sent with
\* Content-Type application/x-www-form-urlencoded.
C17_UrlEncodedCreateRequest ==
    \A i \in DOMAIN courier :
        LET q == courier[i].sent
        IN /\ q.url = << DELHIVERY_BASE_URL, CREATE_PACKAGE >>
           /\ q.method = "POST"
           /\ q.headers.ContentType = "application/x-www-form-urlencoded"
           /\ q.body.encoding = "urlencoded"
           /\ q.body.keys = {"format", "client", "data"}

\* the courier's response holds a non-empty packages array of package objects
HasPackages(outcome) ==
    /\ ~outcome.rejected
    /\ ~outcome.data.isNull /\ outcome.data.hasPackages
    /\ Len(outcome.data.packages) > 0
    /\ \A i \in DOMAIN outcome.data.packages : ~outcome.data.packages[i].isNull

\* C18: createShipment never throws.  It returns success=true exactly when the
\* courier's response holds a non-empty packages array (of package objects), and
\* then its packages list has one element for each of them; in every other case
\* (a response with an error, a malformed or empty response, a rejected request)
\* it returns success=false with an empty packages list and a non-empty error.
C18_CreateShipmentNeverThrows ==
    \A i \in DOMAIN courier :
        LET c == courier[i]
        IN /\ ~c.result.threw
           /\ c.result.success <=> HasPackages(c.outcome)
           /\ c.result.success
              => /\ Len(c.result.packages) = Len(c.outcome.data.packages)
                 /\ Len(c.result.packages) > 0
                 /\ \A k \in DOMAIN c.result.packages :
                       c.result.packages[k].waybill = c.outcome.data.packages[k].waybill
           /\ ~c.result.success
              => /\ c.result.packages = << >>
                 /\ c.result.error # << >>

C18_Witness ==
    \E i, j \in DOMAIN courier :
        /\ courier[i].result.success /\ Len(courier[i].result.packages) = 2
        /\ courier[j].outcome.rejected /\ courier[j].outcome.cause = "transient"
        /\ ~courier[j].result.success
        /\ courier[j].result.error = << "Delhivery API Error: ", "timeout of 30000ms exceeded" >>

\* the fields of a createShipment result other than its free-text error
WithoutMessage(result) == [success |-> result.success, packages |-> result.packages]

\* C19: the results of two failed createShipment calls, one failed by a
\* configuration error and one by a transient remote failure, differ in a field
\* other than the error text.
C19_ConfigurationErrorIsDistinct ==
    \A i, j \in DOMAIN courier :
        ( /\ ~courier[i].result.success /\ courier[i].outcome.cause = "configuration"
          /\ ~courier[j].result.success /\ courier[j].outcome.cause = "transient" )
        => WithoutMessage(courier[i].result) # WithoutMessage(courier[j].result)

\* ------------------------------------------------ after a paid checkout
\* The rows as a checkout of order 1 leaves them: createPaymentOrder has inserted
\* the payment of gateway order 1 and a processPayment run with the gateway's
\* signature has completed it, confirmed the order, taken the order's quantities
\* from the stock and issued the shipment request.  No handler is in flight.
PaidInit ==
    /\ payments = << VerifiedPayment(NewPayment(1, 1), "COMPLETED") >>
    /\ orders = [o \in OrderIds |-> "CONFIRMED"]
    /\ stock = [p \in Products |-> InitialStock - QuantityIn(OrderItems(1), p)]
    /\ shipReq = [o \in OrderIds |-> 1]
    /\ calls = 0
    /\ pc = [r \in Procs |-> "idle"]
    /\ run = [r \in Procs |-> IdleRun]
    /\ courier = << >>

\* the calls that follow a paid checkout
PaidSpec == PaidInit /\ [][Next]_vars

\* the refund run x returned before its first write
RefusedRefund(x) ==
    /\ x.op = "refundPayment"
    /\ x.result.error \in {"Payment not found", "Payment is not completed"}

\* C21: a refundPayment run on a payment id that has no row, or on a payment that
\* is not COMPLETED, returns success=false and has written no Payment and no
\* Order; and no payment is refunded twice: two refundPayment runs never both
\* write REFUNDED to the same payment.
C21_RefundedAtMostOnce ==
    /\ \A r \in Procs :
            (pc[r] = "done" /\ RefusedRefund(run[r]))
            => /\ ~run[r].result.success
               /\ run[r].payWritten = "" /\ run[r].orderWritten = ""
    /\ \A r, t \in Procs :
            ( /\ r # t /\ IsRefund(r) /\ IsRefund(t)
              /\ run[r].paymentId = run[t].paymentId )
            => ~(run[r].payWritten = "REFUNDED" /\ run[t].payWritten = "REFUNDED")

\* C22: a refundPayment run returns success=true only after it has written
\* REFUNDED to the payment and to its order; and whenever a refundPayment run that
\* found its payment COMPLETED has returned (calls made one after the other), the
\* payment is REFUNDED if and only if its order is REFUNDED.
C22_RefundWritesBothOrNeither ==
    \A r \in Procs :
        (IsRefund(r) /\ pc[r] = "done")
        => /\ run[r].result.success
              => (run[r].payWritten = "REFUNDED" /\ run[r].orderWritten = "REFUNDED")
           /\ (Sequential /\ run[r].existed /\ ~RefusedRefund(run[r]) /\ run[r].threw # "findUnique")
              => (payments[run[r].paymentId].status = "REFUNDED"
                  <=> orders[payments[run[r].paymentId].orderId] = "REFUNDED")

IsCreate(r) == run[r].op = "createPaymentOrder"

\* C23: no createPaymentOrder step ends with success=false having changed a
\* payment, an order, a stock or the shipment requests; no call for an order that
\* does not exist succeeds, calls the gateway, or returns another error than
\* 'Order not found' (the lookup itself rejecting apart); no call for an existing
\* order returns 'Order not found'; and a call the gateway refuses has called
\* the gateway, returns success=false with the gateway's error and leaves the
\* payments as they were.
C23_FailedCreateWritesNothing ==
    [][\A r \in Procs :
          IsCreate(r)'
          => /\ ( /\ ~run'[r].result.success
                  /\ << payments, orders, stock, shipReq >>'
                        # << payments, orders, stock, shipReq >> )
                => \A o \in OrderIds \cup UnknownOrderIds, out \in CreateOutcomes :
                       ~createPaymentOrder(r, o, out)
             /\ ( \/ run'[r].result.success
                  \/ run'[r].gatewayCalled
                  \/ run'[r].threw = "" /\ run'[r].result.error # "Order not found" )
                => \A o \in UnknownOrderIds, out \in CreateOutcomes :
                       ~createPaymentOrder(r, o, out)
             /\ (run'[r].threw = "" /\ run'[r].result.error = "Order not found")
                => \A o \in OrderIds, out \in CreateOutcomes :
                       ~createPaymentOrder(r, o, out)
             /\ ~( /\ run'[r].gatewayCalled
                   /\ run'[r].result = Result(FALSE, "gateway error", "")
                   /\ payments' = payments )
                => \A o \in OrderIds : ~createPaymentOrder(r, o, "gateway failed")
      ]_vars

\* a call for an unknown order has returned 'Order not found', the gateway not
\* having been called, and there is no payment row
C23_Witness ==
    \E r \in Procs :
        /\ IsCreate(r) /\ pc[r] = "done"
        /\ run[r].result = Result(FALSE, "Order not found", "")
        /\ ~run[r].gatewayCalled
        /\ payments = << >>

\* C24: a createPaymentOrder call that returns success=true has appended exactly
\* one row: of its order, PENDING, paidAt unset, transactionId the id of the
\* gateway order just created; the lookup of processPayment by that (orderId,
\* gateway order id) pair finds this row and no other; no order status and no
\* stock has changed.
C24_SuccessfulCreateAddsOnePendingRow ==
    [][\A r \in Procs, o \in OrderIds \cup UnknownOrderIds, out \in CreateOutcomes :
          (IsCreate(r)' /\ run'[r].result.success /\ createPaymentOrder(r, o, out))
          => /\ Len(payments') = Len(payments) + 1
             /\ SubSeq(payments', 1, Len(payments)) = payments
             /\ payments'[Len(payments')] =
                    [orderId |-> o, transactionId |-> GatewayOrderId,
                     status |-> "PENDING", paidAt |-> FALSE]
             /\ \A p \in PaymentIds :
                    { i \in DOMAIN payments' :
                        MatchesPayment(payments'[i], HonestRequest(o, GatewayOrderId, p)) }
                    = { Len(payments') }
             /\ UNCHANGED << orders, stock, shipReq >>
      ]_vars

\* a second attempt has been created for order 1: both rows are PENDING, and each
\* is the only row its (orderId, gateway order id) pair finds
C24_Witness ==
    /\ \E r \in Procs : IsCreate(r) /\ pc[r] = "done" /\ run[r].result.success
    /\ Len(payments) = 2
    /\ \A i \in DOMAIN payments :
            /\ payments[i].status = "PENDING" /\ ~payments[i].paidAt
            /\ \A p \in PaymentIds :
                   findFirst(HonestRequest(payments[i].orderId, payments[i].transactionId, p)) = {i}

\* C25: in every reachable state every product's stock is greater than or equal
\* to zero.
C25_StockNeverNegative ==
    \A p \in Products : stock[p] >= 0

\* the payment rows of order o
PaymentsOf(o) == { i \in DOMAIN payments : payments[i].orderId = o }

\* C26: when calls are made one after the other, no step turns FAILED an order
\* that has several payment attempts, one of them COMPLETED, and is CONFIRMED: the
\* step would reach a state where a FAILED order has a COMPLETED payment.
C26_FailedOrderHasNoCompletedPayment ==
    [][\A o \in OrderIds :
          ( /\ Sequential'
            /\ Cardinality(PaymentsOf(o)) >= 2
            /\ orders[o] = "CONFIRMED"
            /\ \E i \in PaymentsOf(o) : payments[i].status = "COMPLETED" )
          => ~( /\ orders'[o] = "FAILED"
                /\ \E i \in PaymentsOf(o) : payments'[i].status = "COMPLETED" )
      ]_vars

\* C27: once a processPayment run and a refundPayment run on the same payment,
\* one started while the other was in flight, have both returned, none of their
\* storage calls having rejected, (Payment.status, Order.status) is one of
\* (COMPLETED, CONFIRMED), (FAILED, FAILED), (REFUNDED, REFUNDED).
C27_InterleavedRunsAgree ==
    \A r, t \in Procs :
        ( /\ IsProcess(r) /\ IsRefund(t)
          /\ pc[r] = "done" /\ pc[t] = "done"
          /\ run[r].overlapped /\ run[t].overlapped
          /\ run[r].existed /\ run[t].existed
          /\ run[r].paymentId = run[t].paymentId
          /\ run[r].threw = "" /\ run[t].threw = "" )
        => << payments[run[r].paymentId].status,
              orders[payments[run[r].paymentId].orderId] >>
           \in { << "COMPLETED", "CONFIRMED" >>, << "FAILED", "FAILED" >>,
                 << "REFUNDED", "REFUNDED" >> }

\* C28: no step of a refundPayment run (the lookup, the payment write, the order
\* write, whether it resolves or rejects) changes the stock of a product, the
\* createDelhiveryShipment calls issued or the calls made of the courier service.
C28_RefundLeavesStockAndCourier ==
    [][\A r \in Procs :
          ( \/ \E id \in 1..(MaxPayments + 1) : RF_FindPayment(r, id)
            \/ RF_UpdatePayment(r)
            \/ RF_UpdateOrder(r) )
          => UNCHANGED << stock, shipReq, courier >>
      ]_vars

\* a paid checkout of order 1 followed by a successful refund: payment and order
\* are REFUNDED, every product's stock is still the decremented value, and the
\* one courier request is the one processPayment made
C28_Witness ==
    \E r \in Procs :
        /\ IsRefund(r) /\ pc[r] = "done" /\ run[r].result.success
        /\ Sequential /\ calls = 2
        /\ payments[run[r].paymentId].status = "REFUNDED"
        /\ orders[payments[run[r].paymentId].orderId] = "REFUNDED"
        /\ \A p \in Products :
               stock[p] = InitialStock
                          - QuantityIn(OrderItems(payments[run[r].paymentId].orderId), p)
        /\ shipReq[payments[run[r].paymentId].orderId] = 1

====
